---- MODULE Spec2Model ----
(***************************************************************************)
(* A model of portfolio.c: the holdings ledger (portfolio[], count), the   *)
(* menu operations view/buy/sell/update_prices/metrics/save_file/load_file *)
(* and the text they read from stdin and exchange with portfolio.txt.      *)
(*                                                                         *)
(* Text is a sequence of one-character strings.  A C int is an integer of  *)
(* 32 bits.  A double is an exact rational (sign, numerator, denominator)  *)
(* or one of inf, -inf, nan; numerators and denominators are naturals in   *)
(* base 10000 (least significant limb first), so that a value such as      *)
(* 2147483647 * 10 is computed and not cut.  The rounding of a double to   *)
(* 53 bits is not modelled; the rounding of "%.10g" to 10 digits is.       *)
(***************************************************************************)
EXTENDS Integers, Sequences, FiniteSets, TLC

(* ------------------------------------------------------------------ *)
(* Program constants                                                  *)
(* ------------------------------------------------------------------ *)
MAX_STOCKS == 100
SYMBOL_LEN == 16
LINE_BUF == 128
\* "%15s" of load_file's sscanf
SCAN_SYM_WIDTH == 15
\* "%.10g" of save_file's fprintf
SAVE_PRECISION == 10
\* value range of int (32 bits)
INT_MAX == 2147483647
INT_MIN == -INT_MAX - 1

(* ------------------------------------------------------------------ *)
(* Bounds of the model                                                *)
(* ------------------------------------------------------------------ *)
\* menu choices served in one run of the program
MaxOps == 2

(* ------------------------------------------------------------------ *)
(* Characters and text                                                *)
(* ------------------------------------------------------------------ *)
Min(S) == CHOOSE x \in S : \A y \in S : x <= y
Max(S) == CHOOSE x \in S : \A y \in S : x >= y

LowerCase == << "a", "b", "c", "d", "e", "f", "g", "h", "i", "j", "k", "l", "m",
                "n", "o", "p", "q", "r", "s", "t", "u", "v", "w", "x", "y", "z" >>
UpperCase == << "A", "B", "C", "D", "E", "F", "G", "H", "I", "J", "K", "L", "M",
                "N", "O", "P", "Q", "R", "S", "T", "U", "V", "W", "X", "Y", "Z" >>
DigitChars == << "0", "1", "2", "3", "4", "5", "6", "7", "8", "9" >>

\* toupper() in the C locale
toupper(c) ==
    IF \E i \in 1..26 : LowerCase[i] = c
    THEN UpperCase[CHOOSE i \in 1..26 : LowerCase[i] = c]
    ELSE c

\* strtoupper(), had it left the characters as they are
strtoupper_asis(s) == s

\* strtoupper(): toupper on every character
strtoupper(s) == [i \in 1..Len(s) |-> toupper(s[i])]

\* isspace() in the C locale
IsSpace(c) == c \in {" ", "\t", "\n", "\r", "\f"}

IsDigit(c) == \E i \in 1..10 : DigitChars[i] = c
DigitVal(c) == (CHOOSE i \in 1..10 : DigitChars[i] = c) - 1
DigitChar(v) == DigitChars[v + 1]

\* the first n characters of s (all of s when it is shorter)
Take(s, n) == IF Len(s) <= n THEN s ELSE SubSeq(s, 1, n)

\* snprintf(dst, size, "%s", src): at most size-1 characters are kept
snprintf_s(size, src) == Take(src, size - 1)

\* the first position >= i of t that holds no white space (Len(t)+1: none)
SkipSpace(t, i) ==
    LET S == {j \in i..Len(t) : ~IsSpace(t[j])}
    IN  IF S = {} THEN Len(t) + 1 ELSE Min(S)

\* the first position >= i of t that holds white space (Len(t)+1: none)
SkipNonSpace(t, i) ==
    LET S == {j \in i..Len(t) : IsSpace(t[j])}
    IN  IF S = {} THEN Len(t) + 1 ELSE Min(S)

\* the first position >= i of t that holds no digit (Len(t)+1: none)
SkipDigits(t, i) ==
    LET S == {j \in i..Len(t) : ~IsDigit(t[j])}
    IN  IF S = {} THEN Len(t) + 1 ELSE Min(S)

\* does t hold the characters of w (any case) from position i on
MatchesAt(t, i, w) ==
    /\ i + Len(w) - 1 <= Len(t)
    /\ \A k \in 1..Len(w) : toupper(t[i + k - 1]) = toupper(w[k])

(* ------------------------------------------------------------------ *)
(* Naturals of any size: limbs of base 10000, least significant first, *)
(* no zero limb at the top; << >> is 0                                 *)
(* ------------------------------------------------------------------ *)
Base == 100 * 100

BigOne == << 1 >>

\* drop the zero limbs at the top
BigTrim(a) ==
    LET S == {i \in 1..Len(a) : a[i] # 0}
    IN  IF S = {} THEN << >> ELSE SubSeq(a, 1, Max(S))

Limb(a, i) == IF i <= Len(a) THEN a[i] ELSE 0

\* a natural v < 2^31 as limbs
BigOfNat(v) ==
    BigTrim(<< v % Base, (v \div Base) % Base, v \div (Base * Base) >>)

\* -1, 0, 1: a < b, a = b, a > b
BigCmp(a, b) ==
    IF Len(a) # Len(b) THEN (IF Len(a) < Len(b) THEN -1 ELSE 1)
    ELSE LET S == {i \in 1..Len(a) : a[i] # b[i]}
         IN  IF S = {} THEN 0
             ELSE IF a[Max(S)] < b[Max(S)] THEN -1 ELSE 1

RECURSIVE BigAddFrom(_, _, _, _)
BigAddFrom(a, b, i, carry) ==
    IF i > Len(a) /\ i > Len(b)
    THEN (IF carry = 0 THEN << >> ELSE << carry >>)
    ELSE LET s == Limb(a, i) + Limb(b, i) + carry
         IN  << s % Base >> \o BigAddFrom(a, b, i + 1, s \div Base)

BigAdd(a, b) == BigAddFrom(a, b, 1, 0)

RECURSIVE BigSubFrom(_, _, _, _)
BigSubFrom(a, b, i, borrow) ==
    IF i > Len(a) THEN << >>
    ELSE LET s == a[i] - Limb(b, i) - borrow
         IN  << s % Base >> \o BigSubFrom(a, b, i + 1, IF s < 0 THEN 1 ELSE 0)

\* a - b, for a >= b
BigSub(a, b) == BigTrim(BigSubFrom(a, b, 1, 0))

RECURSIVE BigMulSmallFrom(_, _, _, _)
BigMulSmallFrom(a, k, i, carry) ==
    IF i > Len(a)
    THEN (IF carry = 0 THEN << >> ELSE << carry >>)
    ELSE LET s == a[i] * k + carry
         IN  << s % Base >> \o BigMulSmallFrom(a, k, i + 1, s \div Base)

\* a * k, for 0 <= k < Base
BigMulSmall(a, k) == IF k = 0 THEN << >> ELSE BigMulSmallFrom(a, k, 1, 0)

\* a * Base^n
BigShift(a, n) == IF a = << >> THEN << >> ELSE [i \in 1..n |-> 0] \o a

RECURSIVE BigMulFrom(_, _, _)
BigMulFrom(a, b, i) ==
    IF i > Len(b) THEN << >>
    ELSE BigAdd(BigShift(BigMulSmall(a, b[i]), i - 1), BigMulFrom(a, b, i + 1))

BigMul(a, b) == BigMulFrom(a, b, 1)

\* 10^n
BigPow10(n) ==
    [i \in 1..(n \div 4) |-> 0]
    \o << CASE n % 4 = 0 -> 1 [] n % 4 = 1 -> 10 [] n % 4 = 2 -> 100 [] OTHER -> 1000 >>

\* the digit characters d1 d2 ... (most significant first) as a natural:
\* limb j holds the j-th group of four digits from the right
DigitAt(ds, pos) == IF pos >= 1 THEN DigitVal(ds[pos]) ELSE 0

BigOfDigits(ds) ==
    LET n == Len(ds)
    IN  BigTrim([j \in 1..((n + 3) \div 4) |->
                   DigitAt(ds, n - 4 * j + 4)
                   + 10 * DigitAt(ds, n - 4 * j + 3)
                   + 100 * DigitAt(ds, n - 4 * j + 2)
                   + 1000 * DigitAt(ds, n - 4 * j + 1)])

\* the natural v as decimal digits (numbers 0..9), most significant first;
\* 0 gives << >>
RECURSIVE NatDigits(_)
NatDigits(v) == IF v = 0 THEN << >> ELSE NatDigits(v \div 10) \o << v % 10 >>

(* ------------------------------------------------------------------ *)
(* int: 32 bits, two's complement                                     *)
(* ------------------------------------------------------------------ *)
\* a + b cut to 32 bits (what a wrapping add stores), for ints a and b
WrapAdd(a, b) ==
    IF a >= 0 /\ b >= 0 /\ a > INT_MAX - b THEN (a + INT_MIN) + (b + INT_MIN)
    ELSE IF a < 0 /\ b < 0 /\ a < INT_MIN - b THEN (a - INT_MIN) + (b - INT_MIN)
    ELSE a + b

AddOverflows(a, b) ==
    \/ a >= 0 /\ b >= 0 /\ a > INT_MAX - b
    \/ a < 0 /\ b < 0 /\ a < INT_MIN - b

\* |v| as a natural of any size
BigOfAbs(v) ==
    IF v >= 0 THEN BigOfNat(v) ELSE BigAdd(BigOfNat(-(v + 1)), BigOne)

(* ------------------------------------------------------------------ *)
(* double: [k, neg, n, d]; k = "fin": the rational (-1)^neg * n / d    *)
(* (d > 0; zero has neg = FALSE); k = "inf": +-infinity; k = "nan"     *)
(* ------------------------------------------------------------------ *)
DFin(neg, n, d) == [k |-> "fin", neg |-> neg /\ n # << >>, n |-> n, d |-> d]
DInf(neg) == [k |-> "inf", neg |-> neg, n |-> << >>, d |-> BigOne]
DNaN == [k |-> "nan", neg |-> FALSE, n |-> << >>, d |-> BigOne]
DZero == DFin(FALSE, << >>, BigOne)

DIsZero(x) == x.k = "fin" /\ x.n = << >>

\* (double)v for an int v
DOfInt(v) == DFin(v < 0, BigOfAbs(v), BigOne)

\* the sum a + b of two ints as a double, not cut to 32 bits
DOfSum(a, b) ==
    IF (a >= 0) = (b >= 0)
    THEN DFin(a < 0, BigAdd(BigOfAbs(a), BigOfAbs(b)), BigOne)
    ELSE DOfInt(a + b)

\* x < 0.0, x <= 0.0 (both false of a nan)
DLtZero(x) == x.k # "nan" /\ x.neg
DLeZero(x) == x.k # "nan" /\ (x.neg \/ DIsZero(x))

\* x == y as C compares doubles (a nan equals nothing)
DEq(x, y) ==
    /\ x.k # "nan" /\ y.k # "nan"
    /\ x.k = y.k
    /\ x.neg = y.neg
    /\ x.k = "fin" => BigMul(x.n, y.d) = BigMul(y.n, x.d)

\* the same value (a nan is the same value as a nan)
DSame(x, y) == (x.k = "nan" /\ y.k = "nan") \/ DEq(x, y)

DMul(x, y) ==
    IF x.k = "nan" \/ y.k = "nan" THEN DNaN
    ELSE IF x.k = "inf" \/ y.k = "inf"
         THEN (IF DIsZero(x) \/ DIsZero(y) THEN DNaN ELSE DInf(x.neg # y.neg))
    ELSE DFin(x.neg # y.neg, BigMul(x.n, y.n), BigMul(x.d, y.d))

\* x + y for finite x and y: a/d + b/d with the signs xneg and yneg
DAddFin(xneg, yneg, a, b, d) ==
    IF xneg = yneg THEN DFin(xneg, BigAdd(a, b), d)
    ELSE IF BigCmp(a, b) >= 0 THEN DFin(xneg, BigSub(a, b), d)
    ELSE DFin(yneg, BigSub(b, a), d)

DAdd(x, y) ==
    IF x.k = "nan" \/ y.k = "nan" THEN DNaN
    ELSE IF x.k = "inf"
         THEN (IF y.k = "inf" /\ y.neg # x.neg THEN DNaN ELSE x)
    ELSE IF y.k = "inf" THEN y
    ELSE DAddFin(x.neg, y.neg, BigMul(x.n, y.d), BigMul(y.n, x.d), BigMul(x.d, y.d))

\* x - y
DSub(x, y) == DAdd(x, IF y.k = "nan" THEN y ELSE [y EXCEPT !.neg = ~y.neg])

DDiv(x, y) ==
    IF x.k = "nan" \/ y.k = "nan" THEN DNaN
    ELSE IF x.k = "inf"
         THEN (IF y.k = "inf" THEN DNaN ELSE DInf(x.neg # y.neg))
    ELSE IF y.k = "inf" THEN DZero
    ELSE IF DIsZero(y)
         THEN (IF DIsZero(x) THEN DNaN ELSE DInf(x.neg # y.neg))
    ELSE DFin(x.neg # y.neg, BigMul(x.n, y.d), BigMul(x.d, y.n))

(* ------------------------------------------------------------------ *)
(* printf conversions                                                 *)
(* ------------------------------------------------------------------ *)
DigitText(ds) == [i \in 1..Len(ds) |-> DigitChar(ds[i])]

\* "%d" of a negative v: the digits of -v, found without leaving 32 bits
FormatNeg(v, unit) ==
    << "-" >> \o DigitText(NatDigits(-((v + unit) \div 10))) \o << DigitChar(unit) >>

\* "%d"
FormatInt(v) ==
    IF v = 0 THEN << "0" >>
    ELSE IF v > 0 THEN DigitText(NatDigits(v))
    ELSE FormatNeg(v, (10 - (v % 10)) % 10)

\* the decimal exponent of n/d > 0 and the pair (r, s) with
\* n/d = (r/s) * 10^e and 1 <= r/s < 10
RECURSIVE ScaleDown(_, _, _)
ScaleDown(r, s, e) ==
    IF BigCmp(r, BigMulSmall(s, 10)) >= 0 THEN ScaleDown(r, BigMulSmall(s, 10), e + 1)
    ELSE [r |-> r, s |-> s, e |-> e]

RECURSIVE ScaleUp(_, _, _)
ScaleUp(r, s, e) ==
    IF BigCmp(r, s) >= 0 THEN [r |-> r, s |-> s, e |-> e]
    ELSE ScaleUp(BigMulSmall(r, 10), s, e - 1)

Scale(n, d) == IF BigCmp(n, d) >= 0 THEN ScaleDown(n, d, 0) ELSE ScaleUp(n, d, 0)

\* the first cnt decimal digits of r/s (0 <= r/s < 10) and what is left:
\* r/s = d1.d2...dcnt + (rem/s) * 10^(1-cnt)
RECURSIVE GenDigits(_, _, _)

\* the digit dg in front of the digits nx that follow it
GenJoin(dg, nx) == [ds |-> << dg >> \o nx.ds, rem |-> nx.rem]

\* after the digit dg, which leaves left = r - dg * s
GenAfter(dg, left, s, cnt) ==
    IF cnt = 1 THEN [ds |-> << dg >>, rem |-> left]
    ELSE GenJoin(dg, GenDigits(BigMulSmall(left, 10), s, cnt - 1))

GenDigit(r, s, cnt, dg) == GenAfter(dg, BigSub(r, BigMulSmall(s, dg)), s, cnt)

GenDigits(r, s, cnt) ==
    GenDigit(r, s, cnt, Max({k \in 0..9 : BigCmp(r, BigMulSmall(s, k)) >= 0}))

\* the digit string plus one unit in its last place; the string grows by a
\* leading 1 when every digit is 9
RECURSIVE IncDigits(_)
IncDigits(ds) ==
    IF ds = << >> THEN << 1 >>
    ELSE IF ds[Len(ds)] < 9
         THEN SubSeq(ds, 1, Len(ds) - 1) \o << ds[Len(ds)] + 1 >>
    ELSE IncDigits(SubSeq(ds, 1, Len(ds) - 1)) \o << 0 >>

\* the digits inc after a round up: 99..9 became 100..0, of which the
\* first prec digits stay and the exponent grows
RoundCarry(inc, e, prec) ==
    IF Len(inc) > prec THEN [ds |-> SubSeq(inc, 1, prec), e |-> e + 1]
    ELSE [ds |-> inc, e |-> e]

\* c compares twice the remainder with the divisor: round to nearest, a tie
\* to the even digit
RoundTo(ds, c, e, prec) ==
    IF c > 0 \/ (c = 0 /\ ds[prec] % 2 = 1) THEN RoundCarry(IncDigits(ds), e, prec)
    ELSE [ds |-> ds, e |-> e]

RoundGen(g, s, e, prec) == RoundTo(g.ds, BigCmp(BigMulSmall(g.rem, 2), s), e, prec)

RoundScaled(sc, prec) == RoundGen(GenDigits(sc.r, sc.s, prec), sc.s, sc.e, prec)

\* n/d > 0 rounded to prec significant digits: the digits and the decimal
\* exponent of the first one
RoundDigits(n, d, prec) == RoundScaled(Scale(n, d), prec)

\* the digits without the zeros at their end
StripZeros(ds) ==
    LET S == {i \in 1..Len(ds) : ds[i] # 0}
    IN  IF S = {} THEN << >> ELSE SubSeq(ds, 1, Max(S))

Zeros(n) == [i \in 1..n |-> 0]

\* the fraction digits behind a point; nothing when there are none
FracText(frac) == IF frac = << >> THEN << >> ELSE << "." >> \o DigitText(frac)

\* the exponent of style e: a sign and at least two digits
ExpText(e) ==
    << "e", IF e < 0 THEN "-" ELSE "+" >>
    \o DigitText(IF e = 0 THEN << 0, 0 >>
                 ELSE IF e > -10 /\ e < 10 THEN << 0 >> \o NatDigits(IF e < 0 THEN -e ELSE e)
                 ELSE NatDigits(IF e < 0 THEN -e ELSE e))

\* "%.<prec>g" of the rounded digits: style e when the exponent is < -4 or
\* >= prec, style f otherwise; the zeros at the end of the fraction are
\* dropped
FormatDigits(ds, e, prec) ==
    IF e < -4 \/ e >= prec
    THEN << DigitChar(ds[1]) >> \o FracText(StripZeros(SubSeq(ds, 2, prec))) \o ExpText(e)
    ELSE IF e >= 0
    THEN DigitText(SubSeq(ds, 1, e + 1)) \o FracText(StripZeros(SubSeq(ds, e + 2, prec)))
    ELSE << "0", "." >> \o DigitText(Zeros(-e - 1) \o StripZeros(ds))

FormatRounded(rd, prec) == FormatDigits(rd.ds, rd.e, prec)

\* "%.<prec>g"
FormatG(x, prec) ==
    IF x.k = "nan" THEN << "-", "n", "a", "n" >>
    ELSE IF x.k = "inf"
         THEN (IF x.neg THEN << "-" >> ELSE << >>) \o << "i", "n", "f" >>
    ELSE IF DIsZero(x) THEN << "0" >>
    ELSE (IF x.neg THEN << "-" >> ELSE << >>)
         \o FormatRounded(RoundDigits(x.n, x.d, prec), prec)

(* ------------------------------------------------------------------ *)
(* strtol, strtod, sscanf                                             *)
(* ------------------------------------------------------------------ *)
\* LONG_MAX = 9223372036854775807 (long has 64 bits)
LONG_MAX_BIG == << 5807, 5477, 368, 3372, 922 >>

\* the low 32 bits of the natural written by the digits ds, as the two
\* halves of 16 bits
RECURSIVE Low32From(_, _, _, _)
Low32From(ds, i, hi, lo) ==
    IF i > Len(ds) THEN [hi |-> hi, lo |-> lo]
    ELSE Low32From(ds, i + 1,
                   (hi * 10 + (lo * 10 + DigitVal(ds[i])) \div 65536) % 65536,
                   (lo * 10 + DigitVal(ds[i])) % 65536)

\* the int with the bit pattern w
IntOfHalves(w) ==
    IF w.hi >= 32768 THEN (w.hi - 65536) * 65536 + w.lo ELSE w.hi * 65536 + w.lo

\* (int)v for the long v = (-1)^neg * m, m a natural within the range of
\* long whose low 32 bits are the int u
CutToInt(neg, u) == IF ~neg THEN u ELSE IF u = INT_MIN THEN INT_MIN ELSE -u

\* (int)v for the long v that strtol returns for the digits ds: LONG_MAX
\* or LONG_MIN when they are out of the range of long, and then the low 32
\* bits
Saturated(neg, m, ds) ==
    IF ~neg /\ BigCmp(m, LONG_MAX_BIG) > 0 THEN -1
    ELSE IF neg /\ BigCmp(m, BigAdd(LONG_MAX_BIG, BigOne)) > 0 THEN 0
    ELSE CutToInt(neg, IntOfHalves(Low32From(ds, 1, 0, 0)))

LongToInt(neg, ds) == Saturated(neg, BigOfDigits(ds), ds)

\* an optional sign at position a of t: is it "-", and where the digits
\* start
ScanSign(t, a) ==
    [neg |-> a <= Len(t) /\ t[a] = "-",
     at |-> IF a <= Len(t) /\ t[a] \in {"+", "-"} THEN a + 1 ELSE a]

\* the digits t[b .. e - 1]; none: no conversion, and the scan stays at i
ScanIntDigits(t, i, neg, b, e) ==
    IF e = b THEN [ok |-> FALSE, val |-> 0, next |-> i]
    ELSE [ok |-> TRUE, val |-> LongToInt(neg, SubSeq(t, b, e - 1)), next |-> e]

ScanIntFrom(t, i, sg) == ScanIntDigits(t, i, sg.neg, sg.at, SkipDigits(t, sg.at))

\* strtol(t + i - 1, &end, 10) and "%d": white space, a sign, digits
ScanInt(t, i) == ScanIntFrom(t, i, ScanSign(t, SkipSpace(t, i)))

\* the exponent of a number whose mantissa ends before position me:
\* e or E, a sign, digits t[eb .. ee - 1]; without digits there is none and
\* the number ends at me
ScanExpDigits(t, me, eb, ee) ==
    IF ee = eb THEN [neg |-> FALSE, ex |-> 0, next |-> me]
    ELSE [neg |-> eb = me + 2 /\ t[me + 1] = "-",
          ex |-> LongToInt(FALSE, SubSeq(t, eb, ee - 1)),
          next |-> ee]

ScanExpFrom(t, me, eb) == ScanExpDigits(t, me, eb, SkipDigits(t, eb))

ScanExp(t, me) ==
    IF me <= Len(t) /\ t[me] \in {"e", "E"}
    THEN ScanExpFrom(t, me, ScanSign(t, me + 1).at)
    ELSE [neg |-> FALSE, ex |-> 0, next |-> me]

\* the value mant * 10^(-nfrac) * 10^(+-ex)
ScanValue(neg, mant, nfrac, xp) ==
    [ok |-> TRUE,
     val |-> DFin(neg,
                  IF xp.neg THEN mant ELSE BigMul(mant, BigPow10(xp.ex)),
                  IF xp.neg THEN BigPow10(nfrac + xp.ex) ELSE BigPow10(nfrac)),
     next |-> xp.next]

\* integer digits t[b .. ie - 1], and after a point the fraction digits
\* t[ie + 1 .. fe - 1] (fe = ie: no point); a lone point after digits is
\* part of the number
ScanFraction(t, i, neg, b, ie, fe) ==
    IF (ie - b) + (IF fe > ie THEN fe - ie - 1 ELSE 0) = 0
    THEN [ok |-> FALSE, val |-> DZero, next |-> i]
    ELSE ScanValue(neg,
                   BigOfDigits(SubSeq(t, b, ie - 1)
                               \o (IF fe > ie THEN SubSeq(t, ie + 1, fe - 1) ELSE << >>)),
                   IF fe > ie THEN fe - ie - 1 ELSE 0,
                   ScanExp(t, fe))

ScanMantissa(t, i, neg, b, ie) ==
    ScanFraction(t, i, neg, b, ie,
                 IF ie <= Len(t) /\ t[ie] = "." THEN SkipDigits(t, ie + 1) ELSE ie)

ScanDoubleFrom(t, i, sg) ==
    IF MatchesAt(t, sg.at, << "i", "n", "f" >>)
    THEN [ok |-> TRUE, val |-> DInf(sg.neg),
          next |-> IF MatchesAt(t, sg.at, << "i", "n", "f", "i", "n", "i", "t", "y" >>)
                   THEN sg.at + 8 ELSE sg.at + 3]
    ELSE IF MatchesAt(t, sg.at, << "n", "a", "n" >>)
    THEN [ok |-> TRUE, val |-> DNaN, next |-> sg.at + 3]
    ELSE ScanMantissa(t, i, sg.neg, sg.at, SkipDigits(t, sg.at))

\* strtod(t + i - 1, &end) and "%lf": white space, a sign, then inf, nan or
\* digits with an optional fraction and an optional exponent (hexadecimal
\* floats and exponents beyond the range of double are not modelled: no
\* input of the model has them)
ScanDouble(t, i) == ScanDoubleFrom(t, i, ScanSign(t, SkipSpace(t, i)))

\* sscanf(line, "%15s %d %lf %lf", sym, &q, &bp, &cp): the number of
\* conversions made (-1: the line ends before the first) and their values
Scanned(n, sym, q, bp, cp) == [n |-> n, sym |-> sym, q |-> q, bp |-> bp, cp |-> cp]

ScanCur(sym, q, bp, rc) ==
    IF ~rc.ok THEN Scanned(3, sym, q, bp, DZero) ELSE Scanned(4, sym, q, bp, rc.val)

ScanBuy(line, sym, q, rb) ==
    IF ~rb.ok THEN Scanned(2, sym, q, DZero, DZero)
    ELSE ScanCur(sym, q, rb.val, ScanDouble(line, rb.next))

ScanQty(line, sym, rq) ==
    IF ~rq.ok THEN Scanned(1, sym, 0, DZero, DZero)
    ELSE ScanBuy(line, sym, rq.val, ScanDouble(line, rq.next))

\* "%15s": the characters t[a .. se - 1], up to white space, 15 at most
ScanSym(line, a, se) == ScanQty(line, SubSeq(line, a, se - 1), ScanInt(line, se))

ScanLineFrom(line, a) ==
    IF a > Len(line) THEN Scanned(-1, << >>, 0, DZero, DZero)
    ELSE ScanSym(line, a, Min({SkipNonSpace(line, a), a + SCAN_SYM_WIDTH}))

sscanf_line(line) == ScanLineFrom(line, SkipSpace(line, 1))

(* ------------------------------------------------------------------ *)
(* Internal helpers of portfolio.c                                    *)
(* ------------------------------------------------------------------ *)
\* get_line(): the k-th line of what stdin still holds; ok = FALSE at the
\* end of input.  A line of the model is shorter than LINE_BUF - 1, so
\* fgets reads it whole and the newline is dropped.
get_line(ins, k) ==
    IF k <= Len(ins) THEN [ok |-> TRUE, line |-> ins[k]]
    ELSE [ok |-> FALSE, line |-> << >>]

\* end == s || *end != '\0': the conversion r must take the whole of s
WholeString(s, r) == [ok |-> r.ok /\ r.next = Len(s) + 1, val |-> r.val]

\* parse_int()
parse_int(s) == WholeString(s, ScanInt(s, 1))

\* parse_double()
parse_double(s) == WholeString(s, ScanDouble(s, 1))

\* find_index(): the first index whose symbol is sym, -1 when there is none
\* (indices count from 0 as in the C code; pf[i + 1] is portfolio[i])
find_index(pf, sym) ==
    LET S == {i \in 0..(Len(pf) - 1) : pf[i + 1].symbol = sym}
    IN  IF S = {} THEN -1 ELSE Min(S)

(* ------------------------------------------------------------------ *)
(* The operations, as functions of the ledger and of the lines stdin   *)
(* still holds.  pf is portfolio[0 .. count-1] (count = Len(pf)).      *)
(* A result tells the ledger afterwards (pf), the message printed      *)
(* (res), the lines read (used), whether a read met the end of input   *)
(* (eof), the values the operation worked with, the number the message *)
(* carries (n: the entries loaded; 0 for a message with no number),     *)
(* and whether it ran into undefined behaviour (ub).                   *)
(* ------------------------------------------------------------------ *)
Stock(sym, q, bp, cp) ==
    [symbol |-> sym, qty |-> q, buy_price |-> bp, cur_price |-> cp]

Outcome(pf, res, used, eof) ==
    [pf |-> pf, res |-> res, used |-> used, eof |-> eof,
     sym |-> << >>, q |-> 0, p |-> DZero, idx |-> -1, n |-> 0, ub |-> FALSE]

\* the result r of an operation that got as far as its symbol, quantity,
\* price and index
WithArgs(r, sym, q, p, idx) == [r EXCEPT !.sym = sym, !.q = q, !.p = p, !.idx = idx]

\* the quantity and the average price of a holding after q more shares are
\* bought at p.  h.qty += q overflows int when the sum is above INT_MAX:
\* undefined behaviour.  The int stored is the sum cut to 32 bits; the
\* division then reads either that int again or (wide) the sum it still
\* holds in a wider register.
MergeLot(h, q, p, wide) ==
    LET old_cost == DMul(DOfInt(h.qty), h.buy_price)
        new_cost == DMul(DOfInt(q), p)
    IN  Stock(h.symbol,
              WrapAdd(h.qty, q),
              DDiv(DAdd(old_cost, new_cost),
                   IF wide /\ AddOverflows(h.qty, q) THEN DOfSum(h.qty, q)
                   ELSE DOfInt(WrapAdd(h.qty, q))),
              p)

\* buy() from int idx = find_index(sym) on, had it no test of count against
\* MAX_STOCKS
buy_lot_unbounded(pf, wide, sym, q, p, idx) ==
    IF idx >= 0
    THEN [Outcome([pf EXCEPT ![idx + 1] = MergeLot(pf[idx + 1], q, p, wide)],
                  "Updated", 3, FALSE)
            EXCEPT !.ub = AddOverflows(pf[idx + 1].qty, q)]
    ELSE Outcome(Append(pf, Stock(sym, q, p, p)), "Added", 3, FALSE)

\* buy() from int idx = find_index(sym) on
buy_lot(pf, wide, sym, q, p, idx) ==
    IF idx >= 0
    THEN [Outcome([pf EXCEPT ![idx + 1] = MergeLot(pf[idx + 1], q, p, wide)],
                  "Updated", 3, FALSE)
            EXCEPT !.ub = AddOverflows(pf[idx + 1].qty, q)]
    ELSE IF Len(pf) < MAX_STOCKS
    THEN Outcome(Append(pf, Stock(sym, q, p, p)), "Added", 3, FALSE)
    ELSE Outcome(pf, "Portfolio full! Cannot buy.", 3, FALSE)

\* buy() with the three lines l1, l2, l3 it may read and what they parse to
buy_read(pf, wide, l1, sym, l2, q, l3, p) ==
    IF ~l1.ok THEN Outcome(pf, "", 0, TRUE)
    ELSE IF Len(l1.line) = 0 THEN Outcome(pf, "No symbol entered.", 1, FALSE)
    ELSE IF ~l2.ok THEN Outcome(pf, "Invalid quantity.", 1, TRUE)
    ELSE IF ~q.ok THEN Outcome(pf, "Invalid quantity.", 2, FALSE)
    ELSE IF q.val <= 0 THEN Outcome(pf, "Quantity must be > 0.", 2, FALSE)
    ELSE IF ~l3.ok THEN Outcome(pf, "Invalid price.", 2, TRUE)
    ELSE IF ~p.ok THEN Outcome(pf, "Invalid price.", 3, FALSE)
    ELSE IF DLeZero(p.val) THEN Outcome(pf, "Price must be > 0.", 3, FALSE)
    ELSE WithArgs(buy_lot(pf, wide, sym, q.val, p.val, find_index(pf, sym)),
                  sym, q.val, p.val, find_index(pf, sym))

buy(pf, ins, wide) ==
    buy_read(pf, wide,
             get_line(ins, 1), strtoupper(snprintf_s(SYMBOL_LEN, get_line(ins, 1).line)),
             get_line(ins, 2), parse_int(get_line(ins, 2).line),
             get_line(ins, 3), parse_double(get_line(ins, 3).line))

\* the removal, had it filled the gap with the last holding
RemoveAt_last(pf, index) ==
    [j \in 1..(Len(pf) - 1) |-> IF j = index + 1 THEN pf[Len(pf)] ELSE pf[j]]

\* portfolio[j] = portfolio[j + 1] for j = index .. count - 2; count--
RemoveAt(pf, index) ==
    [j \in 1..(Len(pf) - 1) |-> IF j < index + 1 THEN pf[j] ELSE pf[j + 1]]

\* sell() after portfolio[index].qty -= q and cur_price = p gave sold
sell_done(sold, index) ==
    IF sold[index + 1].qty = 0
    THEN Outcome(RemoveAt(sold, index), "All shares sold. Stock removed.", 3, FALSE)
    ELSE Outcome(sold, "Sold", 3, FALSE)

\* sell() from q > portfolio[index].qty on, had it no such test
sell_lot_unchecked(pf, index, q, p) ==
    sell_done([pf EXCEPT ![index + 1].qty = @ - q, ![index + 1].cur_price = p], index)

\* sell() from q > portfolio[index].qty on
sell_lot(pf, index, q, p) ==
    IF q > pf[index + 1].qty
    THEN Outcome(pf, "You don't have enough shares!", 3, FALSE)
    ELSE sell_done([pf EXCEPT ![index + 1].qty = @ - q, ![index + 1].cur_price = p],
                   index)

\* sell() with the three lines l1, l2, l3 it may read and what they parse to
sell_read(pf, l1, sym, index, l2, q, l3, p) ==
    IF ~l1.ok THEN Outcome(pf, "", 0, TRUE)
    ELSE IF Len(l1.line) = 0 THEN Outcome(pf, "No symbol entered.", 1, FALSE)
    ELSE IF index = -1 THEN Outcome(pf, "Stock not found!", 1, FALSE)
    ELSE IF ~l2.ok THEN Outcome(pf, "Invalid quantity.", 1, TRUE)
    ELSE IF ~q.ok THEN Outcome(pf, "Invalid quantity.", 2, FALSE)
    ELSE IF q.val <= 0 THEN Outcome(pf, "Quantity must be > 0.", 2, FALSE)
    ELSE IF ~l3.ok THEN Outcome(pf, "Invalid price.", 2, TRUE)
    ELSE IF ~p.ok THEN Outcome(pf, "Invalid price.", 3, FALSE)
    ELSE IF DLtZero(p.val) THEN Outcome(pf, "Price must be >= 0.", 3, FALSE)
    ELSE WithArgs(sell_lot(pf, index, q.val, p.val), sym, q.val, p.val, index)

sell_symbol(pf, ins, sym) ==
    sell_read(pf, get_line(ins, 1), sym, find_index(pf, sym),
              get_line(ins, 2), parse_int(get_line(ins, 2).line),
              get_line(ins, 3), parse_double(get_line(ins, 3).line))

sell(pf, ins) ==
    sell_symbol(pf, ins, strtoupper(snprintf_s(SYMBOL_LEN, get_line(ins, 1).line)))

\* one round of the ALL loop for the holding h: the line read parses to v;
\* a blank line, a line that is no number and a price <= 0 are skipped
bulk_store(h, line, v) ==
    IF Len(line) # 0 /\ v.ok /\ ~DLeZero(v.val) THEN [h EXCEPT !.cur_price = v.val]
    ELSE h

\* the ALL loop after done rounds; it returns in the round whose read meets
\* the end of input
bulk_result(pf, new, done) ==
    IF Len(pf) = 0 THEN Outcome(pf, "Portfolio empty.", 1, FALSE)
    ELSE IF done < Len(pf) THEN Outcome(new, "Input error.", 1 + done, TRUE)
    ELSE Outcome(new, "All updates processed.", 1 + done, FALSE)

bulk_rounds(pf, ins, done) ==
    bulk_result(pf,
                [i \in 1..Len(pf) |->
                   IF i <= done THEN bulk_store(pf[i], ins[i + 1], parse_double(ins[i + 1]))
                   ELSE pf[i]],
                done)

\* update_prices() for ALL: holding i (from 0) reads line i + 2
update_all(pf, ins) == bulk_rounds(pf, ins, Min({Len(pf), Len(ins) - 1}))

\* update_prices() for one symbol, had it stored the price parsed before it
\* tested price <= 0.0
update_one_eager(pf, sym, idx, l2, price) ==
    IF idx < 0 THEN WithArgs(Outcome(pf, "Symbol not found.", 1, FALSE), sym, 0, DZero, idx)
    ELSE IF ~l2.ok THEN WithArgs(Outcome(pf, "Input error.", 1, TRUE), sym, 0, DZero, idx)
    ELSE IF ~price.ok
    THEN WithArgs(Outcome(pf, "Invalid price.", 2, FALSE), sym, 0, price.val, idx)
    ELSE WithArgs(Outcome([pf EXCEPT ![idx + 1].cur_price = price.val],
                          IF DLeZero(price.val) THEN "Invalid price." ELSE "Updated",
                          2, FALSE),
                  sym, 0, price.val, idx)

\* update_prices() for one symbol, from int idx = find_index(sym) on
update_one(pf, sym, idx, l2, price) ==
    IF idx < 0 THEN WithArgs(Outcome(pf, "Symbol not found.", 1, FALSE), sym, 0, DZero, idx)
    ELSE IF ~l2.ok THEN WithArgs(Outcome(pf, "Input error.", 1, TRUE), sym, 0, DZero, idx)
    ELSE IF ~price.ok \/ DLeZero(price.val)
    THEN WithArgs(Outcome(pf, "Invalid price.", 2, FALSE), sym, 0, price.val, idx)
    ELSE WithArgs(Outcome([pf EXCEPT ![idx + 1].cur_price = price.val], "Updated", 2, FALSE),
                  sym, 0, price.val, idx)

update_symbol(pf, ins, l1, sym) ==
    IF ~l1.ok THEN Outcome(pf, "", 0, TRUE)
    ELSE IF Len(l1.line) = 0 THEN Outcome(pf, "No input.", 1, FALSE)
    ELSE IF sym = << "A", "L", "L" >>
    THEN WithArgs(update_all(pf, ins), sym, 0, DZero, -1)
    ELSE update_one(pf, sym, find_index(pf, sym),
                    get_line(ins, 2), parse_double(get_line(ins, 2).line))

update_prices(pf, ins) ==
    update_symbol(pf, ins, get_line(ins, 1),
                  strtoupper(snprintf_s(SYMBOL_LEN, get_line(ins, 1).line)))

\* metrics() from double pct on, had it no test of total_cost == 0.0
metrics_pct_unguarded(total_cost, unrealized) ==
    DMul(DDiv(unrealized, total_cost), DOfInt(100))

\* double pct = (total_cost == 0.0) ? 0.0 : (unrealized / total_cost) * 100.0
metrics_pct(total_cost, unrealized) ==
    IF DIsZero(total_cost) THEN DZero
    ELSE DMul(DDiv(unrealized, total_cost), DOfInt(100))

\* the four numbers metrics() prints
metrics_report(total_cost, market_value) ==
    [total_cost |-> total_cost,
     market_value |-> market_value,
     unrealized |-> DSub(market_value, total_cost),
     pct |-> metrics_pct(total_cost, DSub(market_value, total_cost))]

\* 0.0 + terms[lo] + ... + terms[hi], the sum of metrics()'s loop.  The
\* doubles of the model are exact, so the order of the additions makes no
\* difference to the sum: it is added by halves, which keeps the
\* evaluation shallow.
RECURSIVE metrics_sum(_, _, _)
metrics_sum(terms, lo, hi) ==
    IF lo > hi THEN DZero
    ELSE IF lo = hi THEN terms[lo]
    ELSE DAdd(metrics_sum(terms, lo, (lo + hi) \div 2),
              metrics_sum(terms, ((lo + hi) \div 2) + 1, hi))

\* metrics()
metrics(pf) ==
    metrics_report(
        metrics_sum([i \in 1..Len(pf) |-> DMul(pf[i].buy_price, DOfInt(pf[i].qty))],
                    1, Len(pf)),
        metrics_sum([i \in 1..Len(pf) |-> DMul(pf[i].cur_price, DOfInt(pf[i].qty))],
                    1, Len(pf)))

(* ------------------------------------------------------------------ *)
(* portfolio.txt: [exists, lines]; a line is kept without its newline  *)
(* ------------------------------------------------------------------ *)
NoFile == [exists |-> FALSE, lines |-> << >>]

\* fprintf(f, "%s %d %.10g %.10g\n", ...)
SaveLine(h) ==
    h.symbol \o << " " >> \o FormatInt(h.qty) \o << " " >>
    \o FormatG(h.buy_price, SAVE_PRECISION) \o << " " >>
    \o FormatG(h.cur_price, SAVE_PRECISION)

\* save_file(): the file afterwards; fopen(fname, "w") may fail (canOpen),
\* and then the file is left as it was
save_file(pf, file, canOpen) ==
    IF ~canOpen THEN file
    ELSE [exists |-> TRUE, lines |-> [i \in 1..Len(pf) |-> SaveLine(pf[i])]]

\* the entry load_file's loop stores for a line with four conversions
LoadedStock(r) ==
    Stock(snprintf_s(SYMBOL_LEN, strtoupper(r.sym)), r.q, r.bp, r.cp)

\* the entries stored: the k-th is the line of rank k
load_stored(scanned, stored, rank) ==
    [pf |-> [k \in 1..Cardinality(stored) |->
               LoadedStock(scanned[CHOOSE i \in stored : rank[i] = k])],
     loaded |-> Cardinality(stored)]

\* four: the lines with four conversions; rank[i]: how many of them are
\* among the lines 1..i, that is count + 1 when line i is one of them
load_ranked(scanned, four, rank) ==
    load_stored(scanned, {i \in four : rank[i] - 1 < MAX_STOCKS}, rank)

load_four(scanned, four) ==
    load_ranked(scanned, four,
                [i \in 1..Len(scanned) |-> Cardinality({j \in four : j <= i})])

load_scanned(scanned) ==
    load_four(scanned, {i \in 1..Len(scanned) : scanned[i].n = 4})

\* load_file()'s while loop over the lines of the file (each shorter than
\* LINE_BUF - 1, so that one fgets reads it whole): a line with four
\* conversions is stored while count < MAX_STOCKS, and counted in loaded
load_loop(lines) == load_scanned([i \in 1..Len(lines) |-> sscanf_line(lines[i])])

\* load_file() with the file open: count = 0, the loop, and the report of
\* loaded
load_report(st) == [Outcome(st.pf, "Loaded", 0, FALSE) EXCEPT !.n = st.loaded]

\* load_file(): the ledger afterwards and, in n, the number of entries it
\* says it loaded.  Without the file it returns before count = 0.
load_file(pf, file) ==
    IF ~file.exists THEN Outcome(pf, "No saved portfolio found", 0, FALSE)
    ELSE load_report(load_loop(file.lines))

\* menu(): the choice read, -1 at the end of input or for a line that is
\* no number
menu_choice(l, c) == IF ~l.ok \/ ~c.ok THEN -1 ELSE c.val

menu(ins) == menu_choice(get_line(ins, 1), parse_int(get_line(ins, 1).line))

(* ------------------------------------------------------------------ *)
(* What the user types and what portfolio.txt holds at the start       *)
(* ------------------------------------------------------------------ *)
MenuLines == { << "0" >>, << "1" >>, << "2" >>, << "3" >>, << "4" >>, << "5" >>,
               << "6" >>, << "7" >>, << "9" >>, << "x" >> }

SymLines == { << "A" >>, << "a" >>, << "B" >>, << "a", "l", "l" >>,
              << "A", " ", "0", " ", "1", " ", "1" >>, << >> }

QtyLines == { << "1" >>, << "2" >>, << "0" >>, << "1", "x" >>,
              << "2", "1", "4", "7", "4", "8", "3", "6", "4", "7" >>,
              << "4", "2", "9", "4", "9", "6", "7", "2", "9", "7" >> }

PriceLines == { << "1", "0" >>, << "2", "0" >>, << "0" >>, << "-", "1" >>,
                << "1", "x" >> }

\* the lines typed in answer to the ALL loop: the pattern, repeated
BulkPatterns == { << << "2", "0" >> >>,
                  << << "2", "0" >>, << >> >>,
                  << << "1", "x" >>, << "2", "0" >> >>,
                  << << "0" >>, << "1", "0" >> >>,
                  << << "n", "a", "n" >> >> }

BulkLines(pat, n) == [i \in 1..n |-> pat[((i - 1) % Len(pat)) + 1]]

\* every way to answer prompts that take their lines from S1, S2, S3 when
\* stdin may end after any line
Answers3(S1, S2, S3) ==
    { << >> } \cup { << a >> : a \in S1 }
    \cup { << a, b >> : a \in S1, b \in S2 }
    \cup { << a, b, c >> : a \in S1, b \in S2, c \in S3 }

FieldsOne == << " ", "1", " ", "1", " ", "1" >>

\* more well-formed lines than the ledger has room for; the first is A
FullFile ==
    [exists |-> TRUE,
     lines |-> [i \in 1..(MAX_STOCKS + 1) |->
                  (IF i = 1 THEN << "A" >> ELSE << "S" >> \o DigitText(NatDigits(i)))
                  \o FieldsOne]]

\* well-formed lines, with lines of too few fields, of too many, and with a
\* quantity or a price that is no number
MixedFile ==
    [exists |-> TRUE,
     lines |-> << << "B", " ", "3", " ", "5", " ", "5", ".", "5" >>,
                  << "C", " ", "x", " ", "1", " ", "1" >>,
                  << "D", " ", "1", " ", "2" >>,
                  << >>,
                  << "E", " ", "1", " ", "2", " ", "3", " ", "4" >>,
                  << "F", " ", "1", " ", "2", "x", " ", "3" >>,
                  << "a", " ", "2", " ", "1", ".", "2", "3", "4", "5", "6", "7", "8",
                     "9", "0", "1", "2", " ", "1", "0" >> >>]

\* a symbol twice, and quantities that are not positive
OddFile ==
    [exists |-> TRUE,
     lines |-> << << "A", " ", "2", " ", "1", "0", " ", "1", "0" >>,
                  << "a", " ", "1", " ", "2", "0", " ", "2", "0" >>,
                  << "B", " ", "0", " ", "1", "0", " ", "1", "0" >>,
                  << "Z", " ", "-", "1", " ", "1", "0", " ", "1", "0" >> >>]

\* a line of five fields, then more well-formed lines than the ledger has
\* room for
OverFile ==
    [exists |-> TRUE,
     lines |-> [i \in 1..(MAX_STOCKS + 2) |->
                  IF i = 1 THEN << "E", " ", "1", " ", "2", " ", "3", " ", "4" >>
                  ELSE << "T" >> \o DigitText(NatDigits(i)) \o FieldsOne]]

\* one holding, of no shares
ZeroFile ==
    [exists |-> TRUE,
     lines |-> << << "B", " ", "0", " ", "1", "0", " ", "1", "0" >> >>]

InitFiles == { NoFile, MixedFile, OddFile, FullFile, OverFile, ZeroFile }

(* ------------------------------------------------------------------ *)
(* The program                                                        *)
(* ------------------------------------------------------------------ *)
VARIABLES
    portfolio,  \* portfolio[0 .. count-1], as a sequence
    count,      \* count
    file,       \* portfolio.txt
    eof,        \* stdin has met its end
    pc,         \* "start": before main's load_file; "menu"; "done": returned
    ops,        \* menu choices served so far
    last        \* the operation that ran last, the symbol line typed to it
                \* (typed) and what it reported (m: the numbers of metrics)

vars == << portfolio, count, file, eof, pc, ops, last >>

Report(op, r) ==
    [op |-> op, res |-> r.res, sym |-> r.sym, q |-> r.q, p |-> r.p,
     idx |-> r.idx, n |-> r.n, typed |-> << >>, m |-> metrics(<< >>)]

Init ==
    /\ portfolio = << >>
    /\ count = 0
    /\ file \in InitFiles
    /\ eof = FALSE
    /\ pc = "start"
    /\ ops = 0
    /\ last = Report("none", Outcome(<< >>, "", 0, FALSE))

\* load_file() ran to the result r
Loaded(r) ==
    /\ portfolio' = r.pf
    /\ count' = Len(r.pf)
    /\ last' = Report("load", r)

\* main(): load_file() before the loop
Startup ==
    /\ pc = "start"
    /\ Loaded(load_file(portfolio, file))
    /\ pc' = "menu"
    /\ UNCHANGED << file, eof, ops >>

\* the loop serves choice c, read from one of MenuLines
Chosen(c) ==
    /\ pc = "menu"
    /\ ~eof
    /\ ops < MaxOps
    /\ \E l \in MenuLines : menu(<< l >>) = c
    /\ ops' = ops + 1

\* an operation that read its lines from ins ran to the result r
Ran(op, r, ins) ==
    /\ r.used = Len(ins)
    /\ portfolio' = r.pf
    /\ count' = Len(r.pf)
    /\ eof' = r.eof
    /\ last' = [Report(op, r) EXCEPT !.typed = get_line(ins, 1).line]

\* save_file() ran, called by op
Saved(op, canOpen) ==
    /\ file' = save_file(portfolio, file, canOpen)
    /\ last' = Report(op, Outcome(portfolio,
                  IF canOpen THEN "Portfolio saved" ELSE "Failed to open save file",
                  0, FALSE))

View ==
    /\ Chosen(1)
    /\ last' = Report("view", Outcome(portfolio, "", 0, FALSE))
    /\ UNCHANGED << portfolio, count, file, eof, pc >>

\* buy(); when portfolio[idx].qty += q overflows, the build decides (wide)
\* what the division reads
BuyRan(r, ins) ==
    \E wide \in (IF r.ub THEN BOOLEAN ELSE {FALSE}) :
        Ran("buy", IF wide THEN buy(portfolio, ins, TRUE) ELSE r, ins)

Buy ==
    /\ Chosen(2)
    /\ \E ins \in Answers3(SymLines, QtyLines, PriceLines) :
          BuyRan(buy(portfolio, ins, FALSE), ins)
    /\ UNCHANGED << file, pc >>

Sell ==
    /\ Chosen(3)
    /\ \E ins \in Answers3(SymLines, QtyLines, PriceLines) :
          Ran("sell", sell(portfolio, ins), ins)
    /\ UNCHANGED << file, pc >>

UpdatePrices ==
    /\ Chosen(4)
    /\ \E ins \in Answers3(SymLines, PriceLines, {}) :
          Ran("update", update_prices(portfolio, ins), ins)
    /\ UNCHANGED << file, pc >>

UpdateAll ==
    /\ Chosen(4)
    /\ \E l \in SymLines, pat \in BulkPatterns, n \in {0, 1, count} :
          /\ strtoupper(l) = << "A", "L", "L" >>
          /\ Ran("update", update_prices(portfolio, << l >> \o BulkLines(pat, n)),
                 << l >> \o BulkLines(pat, n))
    /\ UNCHANGED << file, pc >>

Metrics ==
    /\ Chosen(5)
    /\ last' = [Report("metrics", Outcome(portfolio, "", 0, FALSE))
                  EXCEPT !.m = metrics(portfolio)]
    /\ UNCHANGED << portfolio, count, file, eof, pc >>

\* choice 6, had save_file() ended the program when fopen fails
Save_fatal ==
    /\ Chosen(6)
    /\ \E canOpen \in BOOLEAN :
          Saved("save", canOpen) /\ pc' = IF canOpen THEN pc ELSE "done"
    /\ UNCHANGED << portfolio, count, eof >>

Save ==
    /\ Chosen(6)
    /\ \E canOpen \in BOOLEAN : Saved("save", canOpen)
    /\ UNCHANGED << portfolio, count, eof, pc >>

Load ==
    /\ Chosen(7)
    /\ Loaded(load_file(portfolio, file))
    /\ UNCHANGED << file, eof, pc >>

\* default: of the switch, for a line that is no choice: menu() gives -1 for
\* a line that is no number
InvalidChoice ==
    /\ pc = "menu"
    /\ ~eof
    /\ ops < MaxOps
    /\ \E l \in MenuLines : menu(<< l >>) \notin 0..7
    /\ ops' = ops + 1
    /\ last' = Report("invalid", Outcome(portfolio, "Invalid choice.", 0, FALSE))
    /\ UNCHANGED << portfolio, count, file, eof, pc >>

\* menu() gives -1 at the end of input too: default: of the switch, and the
\* loop goes on, to meet the end of input again
EndOfInput ==
    /\ pc = "menu"
    /\ eof' = TRUE
    /\ last' = Report("invalid", Outcome(portfolio, "Invalid choice.", 0, TRUE))
    /\ UNCHANGED << portfolio, count, file, pc, ops >>

\* choice 0 ends the loop: save_file(), "Goodbye!", return
Exit ==
    /\ Chosen(0)
    /\ \E canOpen \in BOOLEAN : Saved("exit", canOpen)
    /\ pc' = "done"
    /\ UNCHANGED << portfolio, count, eof >>

Next ==
    \/ Startup
    \/ View
    \/ Buy
    \/ Sell
    \/ UpdatePrices
    \/ UpdateAll
    \/ Metrics
    \/ Save
    \/ Load
    \/ InvalidChoice
    \/ EndOfInput
    \/ Exit

Spec == Init /\ [][Next]_vars

(* ------------------------------------------------------------------ *)
(* Properties                                                         *)
(* ------------------------------------------------------------------ *)
ALL == << "A", "L", "L" >>

SameStock(a, b) ==
    /\ a.symbol = b.symbol
    /\ a.qty = b.qty
    /\ DSame(a.buy_price, b.buy_price)
    /\ DSame(a.cur_price, b.cur_price)

\* the same holdings in the same order
SameLedger(a, b) ==
    /\ Len(a) = Len(b)
    /\ \A i \in 1..Len(a) : SameStock(a[i], b[i])

\* C1: in every reachable state no two holdings of the ledger have the
\* same symbol
C1_UniqueSymbols ==
    \A i, j \in 1..Len(portfolio) :
        i # j => portfolio[i].symbol # portfolio[j].symbol

\* C2: in every reachable state every holding of the ledger has a quantity
\* above 0
C2_PositiveQuantities == \A i \in 1..Len(portfolio) : portfolio[i].qty > 0

\* (oq * oa + q * p) / (oq + q), the sum oq + q not cut to 32 bits
WeightedMean(oq, oa, q, p) ==
    DDiv(DAdd(DMul(DOfInt(oq), oa), DMul(DOfInt(q), p)), DOfSum(oq, q))

\* a Buy of q at p that found the holding h leaves it as g
MergedAs(h, g, q, p) ==
    /\ ~AddOverflows(h.qty, q)
    /\ g.qty = h.qty + q
    /\ DSame(g.buy_price, WeightedMean(h.qty, h.buy_price, q, p))
    /\ DSame(g.cur_price, p)

\* the lots (q1, p1) and (q2, p2) bought on a fresh symbol give the same
\* quantity and average price in either order
LotsCommute(sym, q1, p1, q2, p2, wide) ==
    /\ MergeLot(Stock(sym, q1, p1, p1), q2, p2, wide).qty
         = MergeLot(Stock(sym, q2, p2, p2), q1, p1, wide).qty
    /\ DSame(MergeLot(Stock(sym, q1, p1, p1), q2, p2, wide).buy_price,
             MergeLot(Stock(sym, q2, p2, p2), q1, p1, wide).buy_price)

C3_Step ==
    /\ (last'.op = "buy" /\ last'.res = "Updated")
         => MergedAs(portfolio[last'.idx + 1], portfolio'[last'.idx + 1], last'.q, last'.p)
    /\ (last'.op = "buy" /\ last'.res = "Added")
         => \A q2 \in {1, 2, INT_MAX}, p2 \in {DOfInt(10), DOfInt(20)}, wide \in BOOLEAN :
               LotsCommute(last'.sym, last'.q, last'.p, q2, p2, wide)

\* C3: a successful Buy of qty at price on a symbol of the ledger sets the
\* quantity to old_qty + qty, the average buy price to
\* (old_qty * old_avg + qty * price) / (old_qty + qty) and the current price
\* to price; two lots bought on a fresh symbol give the same quantity and
\* average price in either order
C3_BuyOnExisting == [][C3_Step]_vars

\* C4: a Sell of exactly the quantity held removes the holding: afterwards
\* a lookup of the symbol finds nothing, and the ledger is one smaller
C4_SellAllRemoves ==
    [][(last'.op = "sell" /\ last'.idx >= 0
          /\ last'.q = portfolio[last'.idx + 1].qty)
         => (/\ find_index(portfolio', last'.sym) = -1
             /\ Len(portfolio') = Len(portfolio) - 1)]_vars

\* C5: a Sell on a symbol of the ledger, with a quantity above the quantity
\* held, reports that there are not enough shares and leaves the ledger as
\* it was
C5_SellTooMany ==
    [][(last'.op = "sell" /\ last'.idx >= 0
          /\ last'.q > portfolio[last'.idx + 1].qty)
         => (/\ last'.res = "You don't have enough shares!"
             /\ portfolio' = portfolio
             /\ count' = count)]_vars

C5_Witness ==
    /\ last.op = "sell"
    /\ last.res = "You don't have enough shares!"
    /\ last.idx >= 0
    /\ last.q > portfolio[last.idx + 1].qty

\* C6: with MAX_STOCKS holdings in the ledger, a Buy on a symbol that is not
\* in it fails and leaves the ledger as it was, and a Buy on a symbol that
\* is in it still succeeds
C6_BuyAtCapacity ==
    [][(count = MAX_STOCKS /\ last'.op = "buy" /\ last'.q > 0)
         => IF find_index(portfolio, last'.sym) = -1
            THEN /\ last'.res = "Portfolio full! Cannot buy."
                 /\ portfolio' = portfolio
                 /\ count' = count
            ELSE /\ last'.res = "Updated"
                 /\ count' = count
                 /\ portfolio'[find_index(portfolio, last'.sym) + 1].qty
                      # portfolio[find_index(portfolio, last'.sym) + 1].qty
                 /\ portfolio'[find_index(portfolio, last'.sym) + 1].cur_price = last'.p]_vars

C6_Witness ==
    /\ count = MAX_STOCKS
    /\ last.op = "buy"
    /\ last.res = "Portfolio full! Cannot buy."
    /\ find_index(portfolio, last.sym) = -1

\* the messages of a Buy, a Sell or a Reprice that succeeded
Succeeded(res) ==
    res \in {"Added", "Updated", "Sold", "All shares sold. Stock removed.",
             "All updates processed."}

\* C7: a Buy, a Sell or a Reprice of one symbol that fails leaves the
\* ledger as it was
C7_FailureKeepsLedger ==
    [][(/\ last'.op \in {"buy", "sell", "update"}
        /\ ~(last'.op = "update" /\ last'.sym = ALL)
        /\ ~Succeeded(last'.res))
         => (portfolio' = portfolio /\ count' = count)]_vars

C7_Witness ==
    /\ last.op = "update"
    /\ last.res = "Invalid price."
    /\ last.idx >= 0
    /\ DLeZero(last.p)

\* C8: for a ledger built by Buy, Sell and Reprice alone (nothing was
\* loaded, nothing saved: there is no file), Save and then Load give a
\* ledger with the same holdings in the same order
C8_SaveLoadRoundTrip ==
    ~file.exists
      => SameLedger(load_file(portfolio, save_file(portfolio, file, TRUE)).pf, portfolio)

\* C9: the ledger after a Load depends on the file alone, not on the ledger
\* before, and is empty when there is no file
C9_LoadReplaces ==
    last.op = "load"
      => (/\ portfolio = load_file(<< >>, file).pf
          /\ ~file.exists => portfolio = << >>)

\* the start of the k-th field of line, the starts of its fields being S
FieldStart(S, k) == CHOOSE s \in S : Cardinality({t \in S : t <= s}) = k

FieldsFrom(line, S) ==
    [k \in 1..Cardinality(S) |->
       SubSeq(line, FieldStart(S, k), SkipNonSpace(line, FieldStart(S, k)) - 1)]

\* the fields of line: its runs of characters that are no white space
Fields(line) ==
    FieldsFrom(line, {i \in 1..Len(line) :
                        ~IsSpace(line[i]) /\ (i = 1 \/ IsSpace(line[i - 1]))})

FourOf(f) ==
    /\ Len(f) = 4
    /\ parse_int(f[2]).ok
    /\ parse_double(f[3]).ok
    /\ parse_double(f[4]).ok

\* line has the format SYMBOL QTY BUY_PRICE CUR_PRICE
FourFields(line) == FourOf(Fields(line))

\* the ledger pf holds the lines kept, in their order, up to its capacity
KeepsLines(pf, kept) ==
    /\ Len(pf) = Min({Len(kept), MAX_STOCKS})
    /\ \A k \in 1..Len(pf) : pf[k] = LoadedStock(sscanf_line(kept[k]))

\* C10: a Load keeps exactly the lines of the file that have the format
\* SYMBOL QTY BUY_PRICE CUR_PRICE, in the order of the file, skips every
\* other line, and reports as its count the number of holdings in the
\* ledger afterwards
C10_LoadKeepsFourFields ==
    (last.op = "load" /\ file.exists)
      => (/\ KeepsLines(portfolio, SelectSeq(file.lines, FourFields))
          /\ last.n = Len(portfolio))

\* the ledger pf holds the first MAX_STOCKS of the lines kept
FirstKept(pf, kept) ==
    Len(kept) > MAX_STOCKS
      => (/\ Len(pf) = MAX_STOCKS
          /\ \A k \in 1..MAX_STOCKS : pf[k] = LoadedStock(sscanf_line(kept[k])))

\* C11: in every reachable state the ledger has between 0 and MAX_STOCKS
\* holdings; a Load of a file with more lines of the format
\* SYMBOL QTY BUY_PRICE CUR_PRICE than MAX_STOCKS keeps the first MAX_STOCKS
\* of them, skips the others, and completes
C11_CapacityKept ==
    /\ count \in 0..MAX_STOCKS
    /\ Len(portfolio) = count
    /\ (last.op = "load" /\ file.exists)
         => (/\ last.res = "Loaded"
             /\ pc # "start"
             /\ FirstKept(portfolio, SelectSeq(file.lines, FourFields)))

\* what is typed to a Reprice of ALL on a ledger of cnt holdings
BulkInputs(cnt) ==
    { << l >> \o BulkLines(pat, n) :
        l \in {s \in SymLines : strtoupper(s) = ALL},
        pat \in BulkPatterns, n \in {0, 1, cnt} }

\* line is a number above 0
ValidPositive(line) ==
    /\ parse_double(line).ok
    /\ parse_double(line).val.k # "nan"
    /\ ~DLeZero(parse_double(line).val)

\* the holding g is the holding h with the price of line, when line is
\* there and is a number above 0, and is h otherwise
Repriced(h, g, there, line) ==
    /\ g.symbol = h.symbol
    /\ g.qty = h.qty
    /\ g.buy_price = h.buy_price
    /\ IF there /\ ValidPositive(line)
       THEN DSame(g.cur_price, parse_double(line).val)
       ELSE g.cur_price = h.cur_price

\* holding i of pf (from 1) is answered by line i + 1 of ins
BulkRule(pf, new, ins) ==
    /\ Len(new) = Len(pf)
    /\ \A i \in 1..Len(pf) :
          Repriced(pf[i], new[i], i + 1 <= Len(ins),
                   IF i + 1 <= Len(ins) THEN ins[i + 1] ELSE << >>)

C12_Case(ins) ==
    (count > 0 /\ Ran("update", update_prices(portfolio, ins), ins))
      => (/\ BulkRule(portfolio, portfolio', ins)
          /\ last'.res = "All updates processed.")

\* C12: a Reprice of ALL goes through the holdings in the order of the
\* ledger, each once: the current price of a holding becomes the value
\* typed for it when that is a number above 0 and stays as it was
\* otherwise, and a blank, invalid, non-positive or missing line does not
\* keep the holdings after it from being processed
C12_BulkReprice == [][\A ins \in BulkInputs(count) : C12_Case(ins)]_vars

\* the holdings (from 1) of a ledger of cnt whose line of ins is stored as
\* their current price
AppliedLines(ins, cnt) ==
    {i \in 1..cnt : i + 1 <= Len(ins) /\ ValidPositive(ins[i + 1])}

C13_Case(ins) ==
    (count > 0 /\ Ran("update", update_prices(portfolio, ins), ins))
      => last'.n = Cardinality(AppliedLines(ins, count))

\* C13: a Reprice of ALL reports the number of holdings whose current
\* price it set
C13_BulkCount == [][\A ins \in BulkInputs(count) : C13_Case(ins)]_vars

\* C14: when stdin has met its end the loop of main ends: the next read of
\* a menu choice, which finds no input, leaves the loop and the program
\* exits
C14_EndOfInputExits == [][(pc = "menu" /\ eof) => pc' = "done"]_vars

\* c is no lower-case letter
NotLower(c) == \A i \in 1..26 : LowerCase[i] # c

\* typed is stored but for the case of its letters
Variant(typed, stored) ==
    /\ Len(typed) = Len(stored)
    /\ \A k \in 1..Len(typed) :
          \/ typed[k] = stored[k]
          \/ \E i \in 1..26 : typed[k] = LowerCase[i] /\ stored[k] = UpperCase[i]

\* the holdings (from 1) of pf whose symbol is typed but for the case
StoredAs(pf, typed) == {k \in 1..Len(pf) : Variant(typed, pf[k].symbol)}

UpperStored ==
    \A i \in 1..Len(portfolio) :
        \A k \in 1..Len(portfolio[i].symbol) : NotLower(portfolio[i].symbol[k])

\* a Buy, a Sell or a Reprice of one symbol, typed in any case, acts on
\* the holding of that symbol
C15_Step ==
    (/\ last'.op \in {"buy", "sell", "update"}
     /\ ~Variant(last'.typed, ALL)
     /\ StoredAs(portfolio, last'.typed) # {})
      => (/\ last'.res \notin {"Added", "Portfolio full! Cannot buy.",
                               "Stock not found!", "Symbol not found."}
          /\ count' <= count
          /\ last'.idx >= 0 => last'.idx + 1 \in StoredAs(portfolio, last'.typed)
          /\ \A j \in 1..Len(portfolio') :
                (Len(portfolio') = Len(portfolio) /\ j # last'.idx + 1)
                   => portfolio'[j] = portfolio[j])

\* C15: the symbols of the ledger are upper-case in every reachable state,
\* and a Buy, a Sell or a Reprice of one symbol given a stored symbol in
\* any case of its letters acts on the holding of that symbol: such a Buy
\* merges into the holding and adds none
C15_CaseInsensitive == []UpperStored /\ [][C15_Step]_vars

\* a Buy typed in lower case was merged into the holding stored in upper
\* case
C15_Witness ==
    /\ last.op = "buy"
    /\ last.res = "Updated"
    /\ last.typed # last.sym
    /\ Variant(last.typed, last.sym)
    /\ UpperStored

\* C16: metrics on an empty ledger gives a total cost, a market value, an
\* unrealized profit and a return in percent of 0, and whenever the total
\* cost is 0 the return reported is 0, not the result of a division by 0
C16_MetricsZero ==
    last.op = "metrics"
      => (/\ count = 0
               => (/\ DIsZero(last.m.total_cost)
                   /\ DIsZero(last.m.market_value)
                   /\ DIsZero(last.m.unrealized)
                   /\ DIsZero(last.m.pct))
          /\ DIsZero(last.m.total_cost) => DIsZero(last.m.pct))

C16_Witness ==
    /\ last.op = "metrics"
    /\ count = 0
    /\ DIsZero(last.m.pct)

\* metrics on a ledger that is not empty and has a total cost of 0
C16_ZeroCost ==
    /\ last.op = "metrics"
    /\ count > 0
    /\ DIsZero(last.m.total_cost)

\* the ledger new is the ledger old after q shares of its holding k (from
\* 1) were sold at p
SoldFrom(old, new, k, q, p) ==
    IF old[k].qty = q
    THEN /\ Len(new) = Len(old) - 1
         /\ \A j \in 1..Len(new) : new[j] = IF j < k THEN old[j] ELSE old[j + 1]
    ELSE /\ Len(new) = Len(old)
         /\ \A j \in 1..Len(old) : j # k => new[j] = old[j]
         /\ new[k].symbol = old[k].symbol
         /\ new[k].buy_price = old[k].buy_price
         /\ new[k].qty = old[k].qty - q
         /\ new[k].cur_price = p

\* C17: a Sell that succeeds lowers the quantity of the holding it sells
\* from by the quantity sold and sets its current price to the price: the
\* average buy price of the holding and every other holding stay as they
\* were, and when the holding is removed the holdings left keep their order
C17_SellFrame ==
    [][(last'.op = "sell"
          /\ last'.res \in {"Sold", "All shares sold. Stock removed."})
         => SoldFrom(portfolio, portfolio', last'.idx + 1, last'.q, last'.p)]_vars

\* the first of several holdings was sold whole
C17_Witness ==
    /\ last.op = "sell"
    /\ last.res = "All shares sold. Stock removed."
    /\ last.idx = 0
    /\ count >= 3

\* C18: View, Metrics and Save leave the ledger as it was, its holdings,
\* their order and their number, whether or not Save could open the file,
\* and the program goes on with its menu
C18_ReadOnly ==
    [][last'.op \in {"view", "metrics", "save"}
         => (portfolio' = portfolio /\ count' = count /\ pc' = "menu")]_vars

\* a Save that could not open the file, with holdings in the ledger
C18_Witness ==
    /\ last.op = "save"
    /\ last.res = "Failed to open save file"
    /\ count > 0
    /\ pc = "menu"

\* what is typed to a Reprice on a ledger of cnt holdings
UpdateInputs(cnt) == Answers3(SymLines, PriceLines, {}) \cup BulkInputs(cnt)

\* the ledger new is the ledger old with p as the current price of its
\* holding k (from 1), and nothing else changed
RepricedOnly(old, new, k, p) ==
    /\ Len(new) = Len(old)
    /\ \A j \in 1..Len(old) :
          IF j = k
          THEN /\ new[j].symbol = old[j].symbol
               /\ new[j].qty = old[j].qty
               /\ new[j].buy_price = old[j].buy_price
               /\ DSame(new[j].cur_price, p)
          ELSE new[j] = old[j]

\* a Reprice that read the symbol of a holding (of the first one, when
\* several holdings have the symbol) and then a price above 0
C19_Case(ins) ==
    (/\ Len(ins) >= 2
     /\ StoredAs(portfolio, ins[1]) # {}
     /\ ValidPositive(ins[2])
     /\ Ran("update", update_prices(portfolio, ins), ins))
      => RepricedOnly(portfolio, portfolio', Min(StoredAs(portfolio, ins[1])),
                      parse_double(ins[2]).val)

\* C19: for every holding of the ledger, a Reprice given the symbol of the
\* holding and a price above 0 sets the current price of that holding and
\* changes nothing else, whatever symbol a Buy gave the holding, the
\* symbol ALL included
C19_RepriceAnySymbol == [][\A ins \in UpdateInputs(count) : C19_Case(ins)]_vars

\* the integer that the digits of line write, of any size, as a double
Entered(line) == DFin(FALSE, BigOfDigits(line), BigOne)

\* the quantity new is the quantity old and the integer entered, and the
\* integer entered is an int
StoredSum(old, new, line) ==
    /\ BigCmp(BigOfDigits(line), BigOfNat(INT_MAX)) <= 0
    /\ DEq(DOfInt(new), DAdd(DOfInt(old), Entered(line)))

\* a Buy that read the three lines of ins and succeeded: it found the
\* holding last'.idx (from 0), or added the last holding of the ledger
C20_Case(ins) ==
    (/\ Ran("buy", buy(portfolio, ins, FALSE), ins)
     /\ last'.res \in {"Added", "Updated"}
     /\ \A k \in 1..Len(ins[2]) : IsDigit(ins[2][k]))
      => IF last'.idx >= 0
         THEN StoredSum(portfolio[last'.idx + 1].qty, portfolio'[last'.idx + 1].qty,
                        ins[2])
         ELSE StoredSum(0, portfolio'[Len(portfolio')].qty, ins[2])

\* C20: the quantity a Buy that succeeds stores is old_qty + qty, as
\* integers without bound, qty being the integer typed: Buys on one symbol
\* never wrap the quantity around 32 bits, and a quantity typed that is no
\* int is rejected, not stored cut to 32 bits
C20_QuantityExact ==
    [][\A ins \in {x \in Answers3(SymLines, QtyLines, PriceLines) : Len(x) = 3} :
          C20_Case(ins)]_vars

====
